---- MODULE Spec2Model ----
(***************************************************************************)
(* Model of app/services/material.py: parse_timestamp, clip_videos and     *)
(* combine_clip_videos.                                                     *)
(*                                                                         *)
(* Strings are sequences of one-character strings, so that split, replace  *)
(* and the numeric conversions are computed and not assumed.  The tokens   *)
(* "clip_", "extra_", "extra_clip_" and ".mp4" stand for the literal       *)
(* prefixes and suffix of the f-strings; they hold neither ':' nor '-'.    *)
(* Times are whole seconds.  The media engine (moviepy) is a collaborator: *)
(* a call either returns or raises, chosen nondeterministically, a written *)
(* file has the duration of the clip written to it, and a call that raises *)
(* leaves the disk as it was.                                              *)
(***************************************************************************)
EXTENDS Integers, Sequences, FiniteSets, TLC

VARIABLES
    pc,                     \* position in the running function
    timestamp,              \* parse_timestamp: the argument
    parsed,                 \* parse_timestamp: the outcome
    timestamp_terms,        \* clip_videos: the argument timestamp_terms
    duration,               \* clip_videos: video.duration
    max_clip_duration,      \* clip_videos: the argument max_clip_duration
    total_duration,         \* clip_videos: the argument total_duration (0: None)
    exists,                 \* clip_videos: os.path.exists(origin_video)
    idx,                    \* clip_videos: position of the primary for loop
    video_paths,            \* the ordered dict key -> path
    current_total_duration, \* clip_videos: current_total_duration
    items,                  \* clip_videos: list(video_paths.items()) of this pass
    jdx,                    \* clip_videos: position of the padding for loop
    files,                  \* the disk: path -> duration of the clip written
    handles,                \* the readers that are open
    video_clips,            \* combine_clip_videos: the paths opened so far
    ret,                    \* how the function ended
    log,                    \* history: every extraction that was written
    failed,                 \* history: the timestamps skipped, <<position, why>>
    fatal                   \* history: the failure that reached an outer handler

vars == <<pc, timestamp, parsed, timestamp_terms, duration, max_clip_duration,
          total_duration, exists, idx, video_paths, current_total_duration,
          items, jdx, files, handles, video_clips, ret, log, failed, fatal>>

-----------------------------------------------------------------------------
(* Bounds *)

MaxLen == 9          \* longest string given to parse_timestamp
MaxTerms == 2        \* longest timestamp_terms
MaxClips == 3        \* most clips given to combine_clip_videos
MaxExtractions == 12 \* extractions of one call that the model follows

DefaultMaxClipDuration == 3

Chars == {"1", ":", "-", "x"}

Durations == {9, 10}
MaxClipDurations == {0, DefaultMaxClipDuration}
NoTarget == 0
Targets == {NoTarget, 2, 8}

TimestampPool ==
    { <<"0", "-", "5">>,
      <<"5", "-", "1", "2">>,
      <<"9", "-", "1", "2">>,
      <<"0", ":", "1", "-", "2">>,
      <<"0", "-", "1", ":", "2">>,
      <<"2", "-", "1">>,
      <<"x", "-", "1">> }

SeqsUpTo(S, n) == UNION { [1..k -> S] : k \in 0..n }

Min(a, b) == IF a < b THEN a ELSE b

-----------------------------------------------------------------------------
(* Strings *)

\* str.split(sep): parts holds the finished parts, part the current one
RECURSIVE SplitFrom(_, _, _, _)
SplitFrom(s, sep, parts, part) ==
    IF s = <<>> THEN Append(parts, part)
    ELSE IF Head(s) = sep
    THEN SplitFrom(Tail(s), sep, Append(parts, part), <<>>)
    ELSE SplitFrom(Tail(s), sep, parts, Append(part, Head(s)))

split(s, sep) == SplitFrom(s, sep, <<>>, <<>>)

replace(s, old, new) == [k \in 1..Len(s) |-> IF s[k] = old THEN new ELSE s[k]]

DigitValue(c) ==
    CASE c = "0" -> 0 [] c = "1" -> 1 [] c = "2" -> 2 [] c = "3" -> 3
      [] c = "4" -> 4 [] c = "5" -> 5 [] c = "6" -> 6 [] c = "7" -> 7
      [] c = "8" -> 8 [] c = "9" -> 9

IsDigit(c) == c \in {"0", "1", "2", "3", "4", "5", "6", "7", "8", "9"}

RECURSIVE Decimal(_)
Decimal(s) ==
    IF s = <<>> THEN 0
    ELSE 10 * Decimal(SubSeq(s, 1, Len(s) - 1)) + DigitValue(s[Len(s)])

\* int(s) and float(s): a value, or ValueError.  Over the characters of the
\* model both accept exactly the non-empty digit strings.
Number(s) ==
    IF s # <<>> /\ \A k \in 1..Len(s) : IsDigit(s[k])
    THEN [ok |-> TRUE, val |-> Decimal(s)]
    ELSE [ok |-> FALSE, val |-> 0]

int(s) == Number(s)
float(s) == Number(s)

-----------------------------------------------------------------------------
(* parse_timestamp *)

\* the only member of a one-element set; it binds a value that is used
\* more than once, so that it is computed once
The(S) == CHOOSE v \in S : TRUE

Failure == [ok |-> FALSE, val |-> 0]

\* lines 20-27
SecondsOfParts(parts) ==
    IF Len(parts) = 3
    THEN The({ IF h.ok /\ m.ok /\ s.ok
               THEN [ok |-> TRUE, val |-> h.val * 3600 + m.val * 60 + s.val]
               ELSE Failure :
               h \in {int(parts[1])}, m \in {int(parts[2])},
               s \in {float(parts[3])} })
    ELSE IF Len(parts) = 2
    THEN The({ IF m.ok /\ s.ok
               THEN [ok |-> TRUE, val |-> m.val * 60 + s.val]
               ELSE Failure :
               m \in {int(parts[1])}, s \in {float(parts[2])} })
    ELSE float(parts[1])

time_to_seconds(time_str) ==
    The({ SecondsOfParts(parts) : parts \in {split(time_str, ":")} })

ParseError == [ok |-> FALSE, start |-> 0, end |-> 0]

\* lines 16 and 29
ParseHalves(halves) ==
    IF Len(halves) # 2 THEN ParseError
    ELSE The({ IF s.ok /\ e.ok
               THEN [ok |-> TRUE, start |-> s.val, end |-> e.val]
               ELSE ParseError :
               s \in {time_to_seconds(halves[1])},
               e \in {time_to_seconds(halves[2])} })

parse_timestamp(ts) == The({ ParseHalves(halves) : halves \in {split(ts, "-")} })

-----------------------------------------------------------------------------
(* clip_videos: the computations of the loop bodies *)

\* a variant that leaves the end past the end of the video
ClampEnd_NoClamp(end_time, dur) == end_time

\* lines 57-59
ClampEnd(end_time, dur) == IF end_time > dur THEN dur ELSE end_time

\* lines 61-67, with the failure of line 55: the timestamp is skipped
SegmentSkipped(ts, dur) ==
    \E p \in {parse_timestamp(ts)} :
        \/ ~p.ok
        \/ p.start >= dur
        \/ p.start >= ClampEnd(p.end, dur)

\* line 69
ClipDuration(start_time, end_time, cap) == Min(end_time - start_time, cap)

\* a variant that never shrinks the clip to what the target leaves
ShrinkToTarget_NoShrink(clip_duration, current, total) == clip_duration

\* lines 72-73
ShrinkToTarget(clip_duration, current, total) ==
    IF total # NoTarget /\ current + clip_duration > total
    THEN total - current
    ELSE clip_duration

\* a variant without the early exit of the primary loop
ReachedTarget_Never(current, total) == FALSE

\* line 90
ReachedTarget(current, total) == total # NoTarget /\ current >= total

\* line 99
NeedsPadding(current, total) == total # NoTarget /\ current < total

\* lines 105-108: the duration of the clip the padding step writes
PaddingDuration(clip_dur, remaining_duration) ==
    IF clip_dur > remaining_duration THEN remaining_duration ELSE clip_dur

\* line 79
ClipFilename(ts) ==
    <<"clip_">> \o replace(replace(ts, ":", "_"), "-", "_") \o <<".mp4">>

\* line 110
ExtraFilename(key) ==
    <<"extra_clip_">> \o replace(replace(key, ":", "_"), "-", "_") \o <<".mp4">>

\* line 113
ExtraKey(key) == <<"extra_">> \o key

\* dict assignment d[key] = path: a known key keeps its place
Put(d, key, path) ==
    IF \E k \in 1..Len(d) : d[k].key = key
    THEN [k \in 1..Len(d) |->
            IF d[k].key = key THEN [key |-> key, path |-> path] ELSE d[k]]
    ELSE Append(d, [key |-> key, path |-> path])

\* writing a clip of duration dur to path
WriteFile(disk, path, dur) ==
    [q \in DOMAIN disk \cup {path} |-> IF q = path THEN dur ELSE disk[q]]

EmptyDict == <<>>
NoFiles == [q \in {} |-> 0]
Running == [kind |-> "running", value |-> EmptyDict]
Returned(value) == [kind |-> "return", value |-> value]

\* a variant that returns what was produced before the failure
OuterHandler_Partial(paths) == Returned(paths)

\* lines 119-121
OuterHandler(paths) == Returned(EmptyDict)

\* a variant that leaves the loop at the first failing timestamp
AfterSegmentError_Break(k, terms) == Len(terms) + 1

\* lines 94-96: continue with the next timestamp
AfterSegmentError(k, terms) == k + 1

-----------------------------------------------------------------------------
(* clip_videos *)

ParseIdle == /\ timestamp = <<>>
             /\ parsed = ParseError

ClipInputsIdle ==
    /\ timestamp_terms = <<>>
    /\ duration = 0
    /\ max_clip_duration = 0
    /\ total_duration = NoTarget
    /\ exists = TRUE

ClipStateIdle ==
    /\ idx = 1
    /\ current_total_duration = 0
    /\ items = <<>>
    /\ jdx = 1
    /\ log = <<>>
    /\ failed = {}

InitClip ==
    /\ pc = "exists"
    /\ ParseIdle
    /\ timestamp_terms \in SeqsUpTo(TimestampPool, MaxTerms)
    /\ duration \in Durations
    /\ max_clip_duration \in MaxClipDurations
    /\ total_duration \in Targets
    /\ exists \in BOOLEAN
    /\ ClipStateIdle
    /\ video_paths = EmptyDict
    /\ files = NoFiles
    /\ handles = {}
    /\ video_clips = <<>>
    /\ ret = Running
    /\ fatal = "none"

inputs == <<timestamp, parsed, timestamp_terms, duration, max_clip_duration,
            total_duration, exists, video_clips>>

\* the outer except, after the with statements have closed their readers
Abort(reason) ==
    /\ pc' = "done"
    /\ handles' = {}
    /\ ret' = OuterHandler(video_paths)
    /\ fatal' = reason

\* lines 38-40
CheckExists ==
    /\ pc = "exists"
    /\ IF exists
       THEN pc' = "open" /\ ret' = ret
       ELSE pc' = "done" /\ ret' = Returned(EmptyDict)
    /\ UNCHANGED <<inputs, idx, video_paths, current_total_duration, items,
                   jdx, files, handles, log, failed, fatal>>

\* lines 43-52
OpenVideo ==
    /\ pc = "open"
    /\ \E outcome \in {"ok", "open", "metadata"} :
          IF outcome = "ok"
          THEN /\ pc' = "primary"
               /\ handles' = handles \cup {"video"}
               /\ UNCHANGED <<ret, fatal>>
          ELSE Abort(outcome)
    /\ UNCHANGED <<inputs, idx, video_paths, current_total_duration, items,
                   jdx, files, log, failed>>

\* lines 53-67 and 94-96: the timestamp does not parse or is out of range
PrimarySkip ==
    /\ pc = "primary"
    /\ idx <= Len(timestamp_terms)
    /\ SegmentSkipped(timestamp_terms[idx], duration)
    /\ failed' = failed \cup {<<idx, "skipped">>}
    /\ idx' = AfterSegmentError(idx, timestamp_terms)
    /\ UNCHANGED <<pc, inputs, video_paths, current_total_duration, items,
                   jdx, files, handles, ret, log, fatal>>

\* lines 77-84 raise, lines 94-96
PrimaryRaise ==
    /\ pc = "primary"
    /\ idx <= Len(timestamp_terms)
    /\ ~SegmentSkipped(timestamp_terms[idx], duration)
    /\ failed' = failed \cup {<<idx, "raised">>}
    /\ idx' = AfterSegmentError(idx, timestamp_terms)
    /\ UNCHANGED <<pc, inputs, video_paths, current_total_duration, items,
                   jdx, files, handles, ret, log, fatal>>

\* lines 53-92
PrimaryExtract ==
    /\ pc = "primary"
    /\ idx <= Len(timestamp_terms)
    /\ ~SegmentSkipped(timestamp_terms[idx], duration)
    /\ \E ts \in {timestamp_terms[idx]} :
       \E p \in {parse_timestamp(ts)} :
       \E clip_duration \in
              {ShrinkToTarget(
                   ClipDuration(p.start, ClampEnd(p.end, duration),
                                max_clip_duration),
                   current_total_duration, total_duration)} :
       \E clip_path \in {ClipFilename(ts)} :
          LET start_time == p.start
              end_time == start_time + clip_duration
              subclip_duration == end_time - start_time
          IN  /\ files' = WriteFile(files, clip_path, subclip_duration)
              /\ video_paths' = Put(video_paths, ts, clip_path)
              /\ current_total_duration' =
                     current_total_duration + subclip_duration
              /\ log' = Append(log, [phase |-> "primary", key |-> ts,
                                     path |-> clip_path, start |-> start_time,
                                     end |-> end_time, src |-> duration,
                                     before |-> current_total_duration])
              /\ IF ReachedTarget(current_total_duration + subclip_duration,
                                  total_duration)
                 THEN pc' = "while" /\ idx' = idx
                 ELSE pc' = pc /\ idx' = idx + 1
    /\ UNCHANGED <<inputs, items, jdx, handles, ret, failed, fatal>>

\* line 53: the list is exhausted
PrimaryEnd ==
    /\ pc = "primary"
    /\ idx > Len(timestamp_terms)
    /\ pc' = "while"
    /\ UNCHANGED <<inputs, idx, video_paths, current_total_duration, items,
                   jdx, files, handles, ret, log, failed, fatal>>

\* lines 99-100: the while test, and the snapshot of the for statement
PadWhile ==
    /\ pc = "while"
    /\ NeedsPadding(current_total_duration, total_duration)
    /\ pc' = "for"
    /\ items' = video_paths
    /\ jdx' = 1
    /\ UNCHANGED <<inputs, idx, video_paths, current_total_duration, files,
                   handles, ret, log, failed, fatal>>

\* lines 99, 123-124: the while test fails, the with closes the video
Return ==
    /\ pc = "while"
    /\ ~NeedsPadding(current_total_duration, total_duration)
    /\ pc' = "done"
    /\ handles' = handles \ {"video"}
    /\ ret' = Returned(video_paths)
    /\ UNCHANGED <<inputs, idx, video_paths, current_total_duration, items,
                   jdx, files, log, failed, fatal>>

\* line 100: the pass is over
PadForEnd ==
    /\ pc = "for"
    /\ jdx > Len(items)
    /\ pc' = "while"
    /\ UNCHANGED <<inputs, idx, video_paths, current_total_duration, items,
                   jdx, files, handles, ret, log, failed, fatal>>

\* line 101
PadOpen ==
    /\ pc = "for"
    /\ jdx <= Len(items)
    /\ Len(log) < MaxExtractions
    /\ \E ok \in BOOLEAN :
          IF ok
          THEN /\ pc' = "body"
               /\ handles' = handles \cup {"clip"}
               /\ UNCHANGED <<ret, fatal>>
          ELSE Abort("pad_open")
    /\ UNCHANGED <<inputs, idx, video_paths, current_total_duration, items,
                   jdx, files, log, failed>>

\* lines 102-117
PadBody ==
    /\ pc = "body"
    /\ LET key == items[jdx].key
           path == items[jdx].path
           remaining_duration == total_duration - current_total_duration
           subclip_duration == PaddingDuration(files[path], remaining_duration)
           new_clip_path == ExtraFilename(key)
       IN  IF remaining_duration <= 0
           THEN /\ pc' = "while"
                /\ handles' = handles \ {"clip"}
                /\ UNCHANGED <<video_paths, current_total_duration, files,
                               jdx, log, ret, fatal>>
           ELSE \E ok \in BOOLEAN :
                  IF ok
                  THEN /\ files' = WriteFile(files, new_clip_path,
                                             subclip_duration)
                       /\ video_paths' = Put(video_paths, ExtraKey(key),
                                             new_clip_path)
                       /\ current_total_duration' =
                              current_total_duration + subclip_duration
                       /\ log' = Append(log,
                              [phase |-> "padding", key |-> ExtraKey(key),
                               path |-> new_clip_path, start |-> 0,
                               end |-> subclip_duration,
                               src |-> files[path],
                               before |-> current_total_duration])
                       /\ handles' = handles \ {"clip"}
                       /\ IF current_total_duration' >= total_duration
                          THEN pc' = "while" /\ jdx' = jdx
                          ELSE pc' = "for" /\ jdx' = jdx + 1
                       /\ UNCHANGED <<ret, fatal>>
                  ELSE /\ Abort("pad_write")
                       /\ UNCHANGED <<video_paths, current_total_duration,
                                      files, jdx, log>>
    /\ UNCHANGED <<inputs, idx, items, failed>>

Next ==
    \/ CheckExists
    \/ OpenVideo
    \/ PrimarySkip
    \/ PrimaryRaise
    \/ PrimaryExtract
    \/ PrimaryEnd
    \/ PadWhile
    \/ Return
    \/ PadForEnd
    \/ PadOpen
    \/ PadBody

Init == InitClip

Spec == Init /\ [][Next]_vars

\* every step is a call that returns, so the function keeps running
FairSpec == Spec /\ WF_vars(Next)

-----------------------------------------------------------------------------
(* parse_timestamp on every string of at most MaxLen characters *)

InitParse ==
    /\ pc = "parse"
    /\ timestamp \in SeqsUpTo(Chars, MaxLen)
    /\ parsed = ParseError
    /\ ClipInputsIdle /\ ClipStateIdle
    /\ video_paths = EmptyDict
    /\ files = NoFiles
    /\ handles = {}
    /\ video_clips = <<>>
    /\ ret = Running
    /\ fatal = "none"

\* lines 9-29
Parse ==
    /\ pc = "parse"
    /\ pc' = "done"
    /\ parsed' = parse_timestamp(timestamp)
    /\ UNCHANGED <<timestamp, timestamp_terms, duration, max_clip_duration,
                   total_duration, exists, idx, video_paths,
                   current_total_duration, items, jdx, files, handles,
                   video_clips, ret, log, failed, fatal>>

NextParse == Parse

SpecParse == InitParse /\ [][NextParse]_vars

-----------------------------------------------------------------------------
(* combine_clip_videos *)

output_path == <<"combined.mp4">>
None == <<"None">>

\* the clips a call of clip_videos may have left in its dict
CombineEntries ==
    { [key |-> ts, path |-> ClipFilename(ts)] :
          ts \in { <<"0", "-", "5">>, <<"5", "-", "1", "2">> } }
    \cup { [key |-> ExtraKey(<<"0", "-", "5">>),
            path |-> ExtraFilename(<<"0", "-", "5">>)] }

IsDict(d) == \A a, b \in 1..Len(d) : d[a].key = d[b].key => a = b

RECURSIVE SumDurations(_, _)
SumDurations(disk, paths) ==
    IF paths = <<>> THEN 0
    ELSE disk[Head(paths)] + SumDurations(disk, Tail(paths))

\* a variant that reports the output path after a failure
CombineHandler_Success == Returned(output_path)

\* lines 148-150
CombineHandler == Returned(None)

\* line 138: concatenate_videoclips takes max() over the clips and raises
\* on an empty list
ConcatRaises(clips) == clips = <<>>

InitCombine ==
    /\ pc = "combine_open"
    /\ ParseIdle /\ ClipInputsIdle /\ ClipStateIdle
    /\ video_paths \in { d \in SeqsUpTo(CombineEntries, MaxClips) : IsDict(d) }
    /\ \E present \in SUBSET { e.path : e \in CombineEntries } :
          files = [q \in present |-> DefaultMaxClipDuration]
    /\ handles = {}
    /\ video_clips = <<>>
    /\ ret = Running
    /\ fatal = "none"

CombineExcept(reason) ==
    /\ pc' = "done"
    /\ ret' = CombineHandler
    /\ fatal' = reason

combine_unchanged == <<timestamp, parsed, timestamp_terms, duration,
                       max_clip_duration, total_duration, exists, idx,
                       video_paths, current_total_duration, items, jdx, log,
                       failed>>

\* line 136: one VideoFileClip(path) of the list comprehension
CombineOpen ==
    /\ pc = "combine_open"
    /\ Len(video_clips) < Len(video_paths)
    /\ LET path == video_paths[Len(video_clips) + 1].path
       IN  \E ok \in BOOLEAN :
             IF ok /\ path \in DOMAIN files
             THEN /\ video_clips' = Append(video_clips, path)
                  /\ handles' = handles \cup {path}
                  /\ UNCHANGED <<pc, ret, fatal>>
             ELSE /\ CombineExcept("open")
                  /\ UNCHANGED <<video_clips, handles>>
    /\ UNCHANGED <<combine_unchanged, files>>

\* line 138
CombineConcat ==
    /\ pc = "combine_open"
    /\ Len(video_clips) = Len(video_paths)
    /\ \E ok \in BOOLEAN :
          IF ok /\ ~ConcatRaises(video_clips)
          THEN /\ pc' = "combine_write"
               /\ handles' = handles \cup {<<"final_clip">>}
               /\ UNCHANGED <<ret, fatal>>
          ELSE /\ CombineExcept("concatenate")
               /\ UNCHANGED handles
    /\ UNCHANGED <<combine_unchanged, files, video_clips>>

\* line 139
CombineWrite ==
    /\ pc = "combine_write"
    /\ \E ok \in BOOLEAN :
          IF ok
          THEN /\ pc' = "combine_close"
               /\ files' = WriteFile(files, output_path,
                                     SumDurations(files, video_clips))
               /\ UNCHANGED <<ret, fatal>>
          ELSE /\ CombineExcept("write")
               /\ UNCHANGED files
    /\ UNCHANGED <<combine_unchanged, handles, video_clips>>

\* lines 142-147
CombineClose ==
    /\ pc = "combine_close"
    /\ pc' = "done"
    /\ handles' = {}
    /\ ret' = Returned(output_path)
    /\ UNCHANGED <<combine_unchanged, files, video_clips, fatal>>

NextCombine ==
    \/ CombineOpen
    \/ CombineConcat
    \/ CombineWrite
    \/ CombineClose

SpecCombine == InitCombine /\ [][NextCombine]_vars

-----------------------------------------------------------------------------
(* Properties *)

Done == pc = "done"

HasTarget == total_duration # NoTarget

PrimaryLog == SelectSeq(log, LAMBDA e : e.phase = "primary")
PaddingLog == SelectSeq(log, LAMBDA e : e.phase = "padding")

EngineFailed == fatal # "none" \/ \E f \in failed : f[2] = "raised"

PositivePrimaryClip == \E k \in 1..Len(log) :
    log[k].phase = "primary" /\ log[k].end > log[k].start

\* C1: clip_videos terminates whenever the engine calls return, also when
\* a target is set and no clip, or only clips of zero duration, were produced.
C1_Terminates == <>Done

\* the duration the claim C2 gives to the extraction e
C2_Planned(e) ==
    IF e.phase = "primary"
    THEN LET p == parse_timestamp(e.key)
             planned == Min(Min(p.end, duration) - p.start, max_clip_duration)
         IN  IF e.before + planned > total_duration
             THEN total_duration - e.before
             ELSE planned
    ELSE Min(total_duration - e.before, e.src)

C2_Safety ==
    HasTarget =>
        /\ current_total_duration <= total_duration
        /\ \A k \in 1..Len(log) : log[k].end - log[k].start = C2_Planned(log[k])
        /\ (Done /\ PositivePrimaryClip /\ ~EngineFailed) =>
               /\ ret = Returned(video_paths)
               /\ current_total_duration = total_duration

\* C2: with a target, a primary clip of positive duration and no failing
\* engine call, clip_videos returns with the cumulative duration equal to the
\* target; primary clips are shrunk to target - cumulative, padding steps take
\* min(remaining, record duration), and the cumulative duration never
\* exceeds the target.
C2_ExactTarget ==
    /\ []C2_Safety
    /\ (HasTarget /\ PositivePrimaryClip) ~> Done

\* the example of the padding loop: 3 + 3 seconds extracted, target 8
C2_Witness ==
    /\ Done /\ ~EngineFailed
    /\ total_duration = 8
    /\ Len(log) = 3
    /\ log[1].end - log[1].start = 3
    /\ log[2].end - log[2].start = 3
    /\ log[3].phase = "padding" /\ log[3].end = 2
    /\ current_total_duration = 8

\* C3: without a target the range extracted for an accepted timestamp is
\* [start, start + min(min(end, videoDuration) - start, maxClipDuration)),
\* so no primary clip is longer than the cap or ends after the video.
C3_ClampThenCap ==
    ~HasTarget =>
        /\ \A k \in 1..Len(log) :
              LET e == log[k]
                  p == parse_timestamp(e.key)
              IN  /\ e.phase = "primary"
                  /\ p.ok
                  /\ e.start = p.start
                  /\ e.end = p.start + Min(Min(p.end, duration) - p.start,
                                           max_clip_duration)
                  /\ e.end - e.start <= max_clip_duration
                  /\ e.end <= duration
        /\ ( /\ Done /\ ~EngineFailed /\ exists
             /\ duration = 10 /\ max_clip_duration = 3
             /\ timestamp_terms = << <<"0", "-", "5">>, <<"5", "-", "1", "2">> >> )
           => /\ Len(log) = 2
              /\ log[1].end - log[1].start = 3
              /\ log[2].end - log[2].start = 3

\* a clip whose requested end lies past the end of the video
C3_Witness ==
    /\ Done /\ ~HasTarget
    /\ duration = 10 /\ max_clip_duration = 3
    /\ Len(log) = 2
    /\ log[1].key = <<"5", "-", "1", "2">> /\ log[1].start = 5 /\ log[1].end = 8
    /\ log[2].key = <<"9", "-", "1", "2">> /\ log[2].start = 9 /\ log[2].end = 10

\* the per-segment failures the claim C4 names that the timestamp decides
C4_Invalid(ts) ==
    LET p == parse_timestamp(ts)
    IN  ~p.ok \/ p.start >= duration \/ p.start >= Min(p.end, duration)

RECURSIVE C4_Kept(_)
C4_Kept(k) ==
    IF k > Len(timestamp_terms) THEN <<>>
    ELSE (IF \E f \in failed : f[1] = k THEN <<>> ELSE <<timestamp_terms[k]>>)
         \o C4_Kept(k + 1)

\* the primary loop on a list in which nothing fails
RECURSIVE C4_Reference(_, _, _)
C4_Reference(terms, current, acc) ==
    IF terms = <<>> THEN acc
    ELSE LET ts == Head(terms)
             p == parse_timestamp(ts)
             d == ShrinkToTarget(
                      ClipDuration(p.start, ClampEnd(p.end, duration),
                                   max_clip_duration),
                      current, total_duration)
             e == [phase |-> "primary", key |-> ts, path |-> ClipFilename(ts),
                   start |-> p.start, end |-> p.start + d, src |-> duration,
                   before |-> current]
             undefined == [e EXCEPT !.phase = "undefined"]
         IN  IF C4_Invalid(ts) THEN Append(acc, undefined)
             ELSE IF HasTarget /\ current + d >= total_duration
             THEN Append(acc, e)
             ELSE C4_Reference(Tail(terms), current + d, Append(acc, e))

C4_AsIfAbsent ==
    (pc \in {"while", "for", "body"} \/ (Done /\ fatal \in {"pad_open", "pad_write"}))
        => PrimaryLog = C4_Reference(C4_Kept(1), 0, <<>>)

C4_SkipStep ==
    ( /\ pc = "primary"
      /\ idx <= Len(timestamp_terms)
      /\ (C4_Invalid(timestamp_terms[idx]) \/ failed' # failed) )
    => /\ video_paths' = video_paths
       /\ current_total_duration' = current_total_duration
       /\ files' = files
       /\ log' = log
       /\ pc' = "primary"
       /\ idx' = idx + 1

\* C4: a timestamp that fails per-segment adds nothing to the mapping and
\* to the cumulative duration, and the later timestamps are processed as if
\* it had not been in the list.
C4_SkipAndContinue ==
    /\ [][C4_SkipStep]_vars
    /\ []C4_AsIfAbsent

\* an extraction that raised, followed by a timestamp that was extracted
C4_Witness ==
    /\ Done /\ fatal = "none"
    /\ failed = {<<1, "raised">>}
    /\ Len(timestamp_terms) = 2
    /\ Len(log) >= 1
    /\ log[1].key = timestamp_terms[2]
    /\ current_total_duration = log[1].end - log[1].start

C5_Components(ts) ==
    LET halves == split(ts, "-")
    IN  UNION { { split(halves[h], ":")[k] :
                    k \in 1..Len(split(halves[h], ":")) } : h \in 1..Len(halves) }

C5_Malformed(ts) ==
    LET halves == split(ts, "-")
    IN  \/ Len(halves) > 2
        \/ \E h \in 1..Len(halves) : Len(split(halves[h], ":")) > 3
        \/ \E c \in C5_Components(ts) : ~Number(c).ok

\* C5: parse_timestamp fails for every string with more than 2 '-' parts,
\* with more than 3 ':' parts in a time, or with a non-numeric component.
C5_RejectsMalformed == (Done /\ C5_Malformed(timestamp)) => ~parsed.ok

\* C6: clip_videos always returns; with a missing source file, and after a
\* whole-video failure at any point, it returns the empty mapping.
C6_EmptyOnFatal ==
    /\ ret.kind \in {"running", "return"}
    /\ Done => /\ ret.kind = "return"
               /\ (~exists \/ fatal # "none") => ret.value = EmptyDict

\* a failure in the padding loop, after clips were produced
C6_Witness ==
    /\ Done
    /\ fatal = "pad_write"
    /\ video_paths # EmptyDict
    /\ ret = Returned(EmptyDict)

C8_HandlesClosed == Done => handles = {}

RECURSIVE C9_Sum(_)
C9_Sum(d) ==
    IF d = <<>> THEN 0 ELSE files[Head(d).path] + C9_Sum(Tail(d))

\* C9: no extraction of a call writes to a key or a file that an earlier
\* extraction of the call has used, so the durations of the returned clips
\* sum to the cumulative duration.
C9_NeverOverwritten ==
    /\ \A a, b \in 1..Len(log) :
          a < b => log[a].key # log[b].key /\ log[a].path # log[b].path
    /\ (Done /\ exists /\ fatal = "none") =>
          C9_Sum(ret.value) = current_total_duration

C10_NoFurtherExtraction ==
    (HasTarget /\ current_total_duration >= total_duration)
    => /\ log' = log
       /\ files' = files
       /\ video_paths' = video_paths
       /\ current_total_duration' = current_total_duration
       /\ idx' = idx

C10_Log ==
    HasTarget =>
        \A k \in 1..Len(log) :
            /\ log[k].before < total_duration
            /\ max_clip_duration > 0 => log[k].end > log[k].start

\* C10: with a target, once the cumulative duration has reached it no
\* extraction is requested: the remaining timestamps are not processed, the
\* padding loop writes nothing, and no clip of zero duration is produced
\* because the target was met.
C10_StopsAtTarget ==
    /\ [][C10_NoFurtherExtraction]_vars
    /\ []C10_Log

\* the target is met by the first of two valid timestamps
C10_Witness ==
    /\ Done /\ HasTarget
    /\ current_total_duration = total_duration
    /\ Len(timestamp_terms) = 2
    /\ ~C4_Invalid(timestamp_terms[2])
    /\ idx = 1
    /\ Len(log) = 1

====
